---- MODULE Spec2Model ----
(***************************************************************************)
(* A model of the WHATWG IPv4 parser of src/src/lib.rs (IpParser).         *)
(*                                                                         *)
(* The parser is a cursor over a byte buffer.  Every function of IpParser  *)
(* is modelled at the granularity of one cursor read/advance per action,   *)
(* so that each evaluation of c() and each call of next() is a step of the *)
(* state machine.                                                          *)
(*                                                                         *)
(* Fixed-width integers are little-endian sequences of bytes: a u32 is a   *)
(* sequence of 4 bytes, a u64 a sequence of 8 bytes (v[1] is the least     *)
(* significant byte).  Arithmetic on them wraps at their width.            *)
(***************************************************************************)
EXTENDS Integers, Sequences, FiniteSets, TLC

VARIABLES
    s,       \* IpParser.s: the buffer, a sequence of bytes
    i,       \* IpParser.i: the cursor (0-based)
    pc,      \* position of the parse in the code
    radix,   \* value(): let radix (0 before radix() returned)
    acc,     \* value(): let mut v = 0_u64
    x,       \* parse(): let x = checker.value()?
    v,       \* parse(): let mut v = 0_u32
    part,    \* parse(): the loop index; 3 for the part after the loop
    res,     \* the u32 returned in Ok(..)
    xs,      \* history: the values value() returned to parse(), in order
    nexts,   \* history: the number of calls of next()
    phase,   \* 1: the parse of the input; 2: of its decimal respelling; 3: of its result's canonical form
    first,   \* the outcome of phase 1, kept for phase 2
    parts    \* how s is spelled: a sequence of [val, rdx, bigx, upper, zeros]; <<>> for raw bytes

vars == <<s, i, pc, radix, acc, x, v, part, res, xs, nexts, phase, first, parts>>

----------------------------------------------------------------------------
(* Program constants. *)

ZERO == 48
DOT == 46
SMALL_X == 120
BIG_X == 88

(* Option::None of char::to_digit. *)
None == -1

----------------------------------------------------------------------------
(* Fixed-width integers. *)

U32Zero == <<0, 0, 0, 0>>
U64Zero == <<0, 0, 0, 0, 0, 0, 0, 0>>

(* u64::from(radix) * v + u64::from(x), wrapping at 64 bits. *)
RECURSIVE MulAddFrom(_, _, _, _)
MulAddFrom(a, r, carry, k) ==
    IF k > Len(a) THEN <<>>
    ELSE LET t == a[k] * r + carry
         IN  <<t % 256>> \o MulAddFrom(a, r, t \div 256, k + 1)

MulAdd(a, r, d) == MulAddFrom(a, r, d, 1)

(* v > 0xffff_ffff for a u64 v. *)
Gt32_Never(a) == FALSE

Gt32(a) == \E k \in 5..8 : a[k] # 0

(* v as u32: truncation of a u64. *)
AsU32(a) == SubSeq(a, 1, 4)

(* u8 bitwise or. *)
RECURSIVE BitOr8(_, _)
BitOr8(a, b) ==
    IF a = 0 THEN b
    ELSE IF b = 0 THEN a
    ELSE (IF a % 2 = 1 \/ b % 2 = 1 THEN 1 ELSE 0) + 2 * BitOr8(a \div 2, b \div 2)

(* u32 | u32 *)
BitOr32_Overwrite(a, b) == b

BitOr32(a, b) == [k \in 1..4 |-> BitOr8(a[k], b[k])]

(* The shift of part `p`: 24 - (part * 8). *)
ShiftOf_Reversed(p) == p * 8

ShiftOf(p) == 24 - (p * 8)

(* u32 << n for n a multiple of 8 below 32; the bits shifted out are lost. *)
Shl(a, n) == [k \in 1..4 |-> IF k - (n \div 8) >= 1 THEN a[k - (n \div 8)] ELSE 0]

(* x >= 256 for a u32 x. *)
Ge256_Never(a) == FALSE

Ge256(a) == a[2] # 0 \/ a[3] # 0 \/ a[4] # 0

RECURSIVE lz8(_)
lz8(b) == IF b >= 128 THEN 0 ELSE IF b = 0 THEN 8 ELSE 1 + lz8(2 * b)

(* u32::leading_zeros *)
leading_zeros(a) ==
    IF a[4] # 0 THEN lz8(a[4])
    ELSE IF a[3] # 0 THEN 8 + lz8(a[3])
    ELSE IF a[2] # 0 THEN 16 + lz8(a[2])
    ELSE 24 + lz8(a[1])

----------------------------------------------------------------------------
(* The cursor. *)

end(buf, pos) == Len(buf) = pos

(* self.s[self.i]; evaluated only where pos < Len(buf), else the index panics. *)
c(buf, pos) == buf[pos + 1]

(* char::from(b).to_digit(rdx): bytes above 0x7f are the chars U+0080..U+00FF, *)
(* none of which is a digit.                                                   *)
to_digit_LowerOnly(b, rdx) ==
    LET d == IF b \in 48..57 THEN b - 48
             ELSE IF b \in 97..122 THEN b - 97 + 10
             ELSE 36
    IN  IF d < rdx THEN d ELSE None

to_digit_Decimal(b, rdx) ==
    LET d == IF b \in 48..57 THEN b - 48
             ELSE IF b \in 97..122 THEN b - 97 + 10
             ELSE IF b \in 65..90 THEN b - 65 + 10
             ELSE 36
    IN  IF d < 10 \/ d < rdx THEN d ELSE None

to_digit(b, rdx) ==
    LET d == IF b \in 48..57 THEN b - 48
             ELSE IF b \in 97..122 THEN b - 97 + 10
             ELSE IF b \in 65..90 THEN b - 65 + 10
             ELSE 36
    IN  IF d < rdx THEN d ELSE None

(* IpParser::last_part: [ok |-> FALSE] is Err(NotAnIp). *)
last_part_OffByOne(val, p, e) ==
    IF e
    THEN IF leading_zeros(val) <= p * 8
         THEN [ok |-> FALSE, val |-> U32Zero]
         ELSE [ok |-> TRUE, val |-> val]
    ELSE [ok |-> FALSE, val |-> U32Zero]

last_part_IgnoreEnd(val, p, e) ==
    IF leading_zeros(val) < p * 8
    THEN [ok |-> FALSE, val |-> U32Zero]
    ELSE [ok |-> TRUE, val |-> val]

last_part(val, p, e) ==
    IF e
    THEN IF leading_zeros(val) < p * 8
         THEN [ok |-> FALSE, val |-> U32Zero]
         ELSE [ok |-> TRUE, val |-> val]
    ELSE [ok |-> FALSE, val |-> U32Zero]

----------------------------------------------------------------------------
(* The steps of a parse. *)

(* IpParser::new and the locals of parse() before the loop. *)
Start(buf) ==
    /\ s = buf
    /\ i = 0
    /\ pc = "radix"
    /\ radix = 0
    /\ acc = U64Zero
    /\ x = U32Zero
    /\ v = U32Zero
    /\ part = 0
    /\ res = U32Zero
    /\ xs = <<>>
    /\ nexts = 0

(* radix(): the test of the first byte of a part. *)
RadixStart ==
    /\ pc = "radix"
    /\ IF end(s, i) \/ c(s, i) = DOT
       THEN pc' = "err" /\ UNCHANGED <<i, nexts, radix>>
       ELSE IF c(s, i) = ZERO
       THEN i' = i + 1 /\ nexts' = nexts + 1 /\ pc' = "radix_x" /\ UNCHANGED radix
       ELSE radix' = 10 /\ pc' = "value" /\ UNCHANGED <<i, nexts>>
    /\ UNCHANGED <<s, acc, x, v, part, res, xs, phase, first, parts>>

(* radix(): after a leading zero, the test for x or X. *)
RadixX ==
    /\ pc = "radix_x"
    /\ IF ~end(s, i) /\ (c(s, i) = SMALL_X \/ c(s, i) = BIG_X)
       THEN i' = i + 1 /\ nexts' = nexts + 1 /\ pc' = "radix_end" /\ UNCHANGED radix
       ELSE radix' = 8 /\ pc' = "value" /\ UNCHANGED <<i, nexts>>
    /\ UNCHANGED <<s, acc, x, v, part, res, xs, phase, first, parts>>

(* radix(): after 0x, the test for the end of the input. *)
RadixEnd ==
    /\ pc = "radix_end"
    /\ IF end(s, i)
       THEN pc' = "err" /\ UNCHANGED radix
       ELSE radix' = 16 /\ pc' = "value"
    /\ UNCHANGED <<s, i, acc, x, v, part, res, xs, nexts, phase, first, parts>>

(* value(): after radix() returned; Ok(0) at the end of the input. *)
ValueStart_NoEndCheck ==
    /\ pc = "value"
    /\ acc' = U64Zero /\ pc' = "digit" /\ UNCHANGED x
    /\ UNCHANGED <<s, i, radix, v, part, res, xs, nexts, phase, first, parts>>

ValueStart ==
    /\ pc = "value"
    /\ IF end(s, i)
       THEN x' = U32Zero /\ pc' = "part" /\ UNCHANGED acc
       ELSE acc' = U64Zero /\ pc' = "digit" /\ UNCHANGED x
    /\ UNCHANGED <<s, i, radix, v, part, res, xs, nexts, phase, first, parts>>

(* value(): one test of the while-let, with the body of the loop when the     *)
(* byte is a digit and the code after the loop when it is not.  c() is read   *)
(* first: with the cursor at the end the index panics.                        *)
Digit ==
    /\ pc = "digit"
    /\ IF i >= Len(s)
       THEN pc' = "panic" /\ UNCHANGED <<i, nexts, acc, x>>
       ELSE LET d == to_digit(c(s, i), radix)
                a == MulAdd(acc, radix, d)
            IN  IF d = None
                THEN /\ UNCHANGED <<i, nexts, acc>>
                     /\ IF c(s, i) = DOT
                        THEN x' = AsU32(acc) /\ pc' = "part"
                        ELSE pc' = "err" /\ UNCHANGED x
                ELSE /\ acc' = a
                     /\ IF Gt32(a)
                        THEN pc' = "err" /\ UNCHANGED <<i, nexts, x>>
                        ELSE /\ i' = i + 1
                             /\ nexts' = nexts + 1
                             /\ IF end(s, i + 1)
                                THEN x' = AsU32(a) /\ pc' = "part"
                                ELSE pc' = "digit" /\ UNCHANGED x
    /\ UNCHANGED <<s, radix, v, part, res, xs, phase, first, parts>>

(* parse(): the body of the loop after value() returned x, for part 0, 1, 2. *)
MiddlePart ==
    /\ pc = "part"
    /\ part < 3
    /\ xs' = Append(xs, x)
    /\ IF Ge256(x) \/ end(s, i)
       THEN LET l == last_part(x, part, end(s, i))
            IN  /\ IF l.ok
                   THEN res' = BitOr32(v, l.val) /\ pc' = "ok"
                   ELSE pc' = "err" /\ UNCHANGED res
                /\ UNCHANGED <<i, nexts, v, part>>
       ELSE IF c(s, i) # DOT
       THEN pc' = "panic" /\ UNCHANGED <<i, nexts, v, part, res>>
       ELSE /\ i' = i + 1
            /\ nexts' = nexts + 1
            /\ v' = BitOr32(v, Shl(x, ShiftOf(part)))
            /\ part' = part + 1
            /\ pc' = "radix"
            /\ UNCHANGED res
    /\ UNCHANGED <<s, radix, acc, x, phase, first, parts>>

(* parse(): the part after the loop. *)
FinalPart ==
    /\ pc = "part"
    /\ part = 3
    /\ xs' = Append(xs, x)
    /\ LET l == last_part(x, 3, end(s, i))
       IN  IF l.ok
           THEN res' = BitOr32(v, l.val) /\ pc' = "ok"
           ELSE pc' = "err" /\ UNCHANGED res
    /\ UNCHANGED <<s, i, radix, acc, x, v, part, nexts, phase, first, parts>>

ParseNext ==
    \/ RadixStart
    \/ RadixX
    \/ RadixEnd
    \/ ValueStart
    \/ Digit
    \/ MiddlePart
    \/ FinalPart

----------------------------------------------------------------------------
(* Spelling of numbers, as the tests spell them: format!("{}", n),          *)
(* format!("0{:o}", n), format!("0x{:x}", n), format!("0X{:X}", n).  A      *)
(* number to spell is a little-endian byte sequence of any length without   *)
(* most significant zero bytes (<<>> is 0).                                 *)

RECURSIVE Norm(_)
Norm(n) ==
    IF n = <<>> THEN <<>>
    ELSE IF n[Len(n)] = 0 THEN Norm(SubSeq(n, 1, Len(n) - 1))
    ELSE n

(* The remainder of the number made of bytes k.. of n, divided by r. *)
RECURSIVE Rem(_, _, _)
Rem(n, r, k) == IF k > Len(n) THEN 0 ELSE (Rem(n, r, k + 1) * 256 + n[k]) % r

Quot(n, r) == Norm([k \in 1..Len(n) |-> (Rem(n, r, k + 1) * 256 + n[k]) \div r])

(* The digits of n in radix r, most significant first; 0 has the digit 0. *)
RECURSIVE DigitsOf(_, _)
DigitsOf(n, r) ==
    IF Quot(n, r) = <<>> THEN <<Rem(n, r, 1)>>
    ELSE DigitsOf(Quot(n, r), r) \o <<Rem(n, r, 1)>>

DigitByte(d, upper) ==
    IF d < 10 THEN 48 + d ELSE (IF upper THEN 65 ELSE 97) + (d - 10)

Zeros(n) == [k \in 1..n |-> ZERO]

(* The bytes of one part p = [val, rdx, bigx, upper, zeros]. *)
Spell(p) ==
    LET ds == DigitsOf(p.val, p.rdx)
        digits == [k \in 1..Len(ds) |-> DigitByte(ds[k], p.upper)]
    IN  CASE p.rdx = 10 -> digits
          [] p.rdx = 8 -> <<ZERO>> \o Zeros(p.zeros) \o digits
          [] p.rdx = 16 ->
                <<ZERO, IF p.bigx THEN BIG_X ELSE SMALL_X>> \o Zeros(p.zeros) \o digits

(* Byte strings joined by dots. *)
RECURSIVE Join(_)
Join(toks) ==
    IF toks = <<>> THEN <<>>
    ELSE IF Len(toks) = 1 THEN toks[1]
    ELSE toks[1] \o <<DOT>> \o Join(Tail(toks))

Render(ps) == Join([k \in 1..Len(ps) |-> Spell(ps[k])])

Dec(n) == [val |-> n, rdx |-> 10, bigx |-> FALSE, upper |-> FALSE, zeros |-> 0]

Decimal(ps) == [k \in 1..Len(ps) |-> Dec(ps[k].val)]

(* Ipv4Addr::from(u32) and its Display: the four octets, most significant   *)
(* first, each in decimal.                                                  *)
Canonical(a) == [k \in 1..4 |-> Dec(Norm(<<a[5 - k]>>))]

----------------------------------------------------------------------------
(* Parsing a second string derived from the first parse. *)

Outcome == [ok |-> pc = "ok", val |-> IF pc = "ok" THEN res ELSE U32Zero, parts |-> parts]

Restart(buf) ==
    /\ s' = buf
    /\ i' = 0
    /\ pc' = "radix"
    /\ radix' = 0
    /\ acc' = U64Zero
    /\ x' = U32Zero
    /\ v' = U32Zero
    /\ part' = 0
    /\ res' = U32Zero
    /\ xs' = <<>>
    /\ nexts' = 0

(* The input with every part respelled in decimal. *)
Respell ==
    /\ phase = 1
    /\ pc \in {"ok", "err"}
    /\ \E k \in 1..Len(parts) : parts[k].rdx # 10
    /\ phase' = 2
    /\ first' = Outcome
    /\ parts' = Decimal(parts)
    /\ Restart(Render(Decimal(parts)))

(* The canonical dotted quad of a parsed address. *)
Reparse ==
    /\ phase = 1
    /\ pc = "ok"
    /\ phase' = 3
    /\ first' = Outcome
    /\ parts' = Canonical(res)
    /\ Restart(Render(Canonical(res)))

----------------------------------------------------------------------------
(* Inputs that are arbitrary byte strings. *)

MaxLen == 5

(* A dot, digits of each radix, both x, a letter that is no digit and a      *)
(* byte that is not ASCII.                                                   *)
Alphabet == {DOT, ZERO, 49, 56, 102, SMALL_X, BIG_X, 226}

ByteStrings == UNION {[1..n -> Alphabet] : n \in 0..MaxLen}

(* Inputs that are up to MaxParts tokens joined by dots: an empty part, a    *)
(* part in each radix, a bare prefix, a digit that is none in its radix.    *)
MaxParts == 5

Tokens == {<<>>, <<49>>, <<ZERO, BIG_X, 102>>, <<ZERO, SMALL_X>>, <<ZERO, 56>>, <<ZERO, 49, 49>>}

TokenStrings == {Join(t) : t \in UNION {[1..n -> Tokens] : n \in 0..MaxParts}}

NoOutcome == [ok |-> FALSE, val |-> U32Zero, parts |-> <<>>]

Init ==
    /\ \E buf \in ByteStrings \cup TokenStrings : Start(buf)
    /\ phase = 1
    /\ first = NoOutcome
    /\ parts = <<>>

Next == ParseNext

Spec == Init /\ [][Next]_vars

(* parse() runs to its return: no step of it waits for anything. *)
FairSpec == Spec /\ WF_vars(Next)

----------------------------------------------------------------------------
(* Inputs that are spelled numbers joined by dots. *)

(* The most zeros written between the prefix of a part and its digits. *)
MaxZeros == 1

(* The zeros of a part with very many of them (the test many_zeroes has 40). *)
LongZeros == 12

Octal(z) == [rdx |-> 8, bigx |-> FALSE, upper |-> FALSE, zeros |-> z]

Hex(bx, up, z) == [rdx |-> 16, bigx |-> bx, upper |-> up, zeros |-> z]

Styles(zs) == {Octal(z) : z \in zs} \cup {Hex(bx, up, z) : bx \in BOOLEAN, up \in BOOLEAN, z \in zs}

Styled(n, st) == [val |-> n, rdx |-> st.rdx, bigx |-> st.bigx, upper |-> st.upper, zeros |-> st.zeros]

(* 0, 255, 256 *)
SmallVals == {<<>>, <<255>>, <<0, 1>>}

(* The values around each bit budget of a last part: 2^8, 2^16, 2^24, 2^32, *)
(* and 127.0.0.1 as one number.                                             *)
LastVals ==
    SmallVals \cup
    { <<1>>, <<255, 255>>, <<0, 0, 1>>, <<255, 255, 255>>, <<0, 0, 0, 1>>,
      <<255, 255, 255, 255>>, <<0, 0, 0, 0, 1>>, <<1, 0, 0, 127>> }

(* The values of k parts: the last one of LastVals, the others of SmallVals. *)
ValSeqs(k) ==
    {[j \in 1..k |-> IF j = k THEN l ELSE f[j]] : f \in [1..(k - 1) -> SmallVals], l \in LastVals}

(* Every part in decimal; one part in another spelling and the rest in      *)
(* decimal; every part in the same other spelling, without more zeros.      *)
StyledInputs ==
    UNION {
        {Decimal([j \in 1..k |-> [val |-> vs[j]]]) : vs \in ValSeqs(k)}
        \cup {[j \in 1..k |-> IF j = m THEN Styled(vs[j], st) ELSE Dec(vs[j])] :
                vs \in ValSeqs(k), m \in 1..k, st \in Styles(0..MaxZeros)}
        \cup {[j \in 1..k |-> Styled(vs[j], st)] :
                vs \in ValSeqs(k), st \in Styles({0})}
        : k \in 1..4}

(* Decimal dotted quads. *)
Octets == {<<>>, <<1>>, <<9>>, <<10>>, <<99>>, <<100>>, <<255>>}

QuadInputs == {[j \in 1..4 |-> Dec(f[j])] : f \in [1..4 -> Octets]}

(* 0 and 1, the largest u32, and numbers that are no u32: 2^32, 2^32 + 1,   *)
(* 2^36 - 1, 2^36, 2^40 + 7, 2^64 + 5, 2^72.                                *)
BigVals ==
    { <<>>, <<1>>, <<255, 255, 255, 255>>,
      <<0, 0, 0, 0, 1>>, <<1, 0, 0, 0, 1>>, <<255, 255, 255, 255, 15>>,
      <<0, 0, 0, 0, 16>>, <<7, 0, 0, 0, 0, 1>>,
      <<5, 0, 0, 0, 0, 0, 0, 0, 1>>, <<0, 0, 0, 0, 0, 0, 0, 0, 0, 1>> }

(* One number of BigVals in any spelling, with up to LongZeros zeros, alone *)
(* or as any part among parts that are 1.                                   *)
OverflowInputs ==
    {[j \in 1..k |-> IF j = m THEN p ELSE Dec(<<1>>)] :
        k \in 1..4, m \in 1..4,
        p \in {Dec(n) : n \in BigVals}
              \cup {Styled(n, st) : n \in BigVals, st \in Styles((0..MaxZeros) \cup {LongZeros})}}

InitParts ==
    /\ \E ps \in StyledInputs \cup QuadInputs \cup OverflowInputs :
          /\ parts = ps
          /\ Start(Render(ps))
    /\ phase = 1
    /\ first = NoOutcome

NextParts == ParseNext \/ Respell \/ Reparse

SpecParts == InitParts /\ [][NextParts]_vars

----------------------------------------------------------------------------
(* What the claims speak of. *)

(* parse() returned: "ok" is Ok(res), "err" is Err(NotAnIp). *)
Done == pc \in {"ok", "err"}

(* A spelled number as a u32. *)
Pad4(n) == [k \in 1..4 |-> IF k <= Len(n) THEN n[k] ELSE 0]

(* A u32 that is at most 255. *)
IsOctet(a) == a[2] = 0 /\ a[3] = 0 /\ a[4] = 0

(* A u64 that is more than 0xffff_ffff. *)
Over32(a) == a[5] # 0 \/ a[6] # 0 \/ a[7] # 0 \/ a[8] # 0

AllDecimal(ps) == \A k \in 1..Len(ps) : ps[k].rdx = 10

(* The digits of each radix, as the grammar has them. *)
IsDigitIn(b, r) ==
    CASE r = 8 -> b \in 48..55
      [] r = 10 -> b \in 48..57
      [] r = 16 -> b \in (48..57) \cup (97..102) \cup (65..70)

(* Position q (1-based) of s is the first byte of a part. *)
IsPartStart(q) == q \in 1..Len(s) /\ s[q] # DOT /\ (q = 1 \/ s[q - 1] = DOT)

(* The first byte of the part that holds position p. *)
PartStartOf(p) == CHOOSE q \in 1..p : IsPartStart(q) /\ \A k \in q..p : s[k] # DOT

HasPrefix(q) == s[q] = ZERO /\ q + 1 <= Len(s) /\ s[q + 1] \in {SMALL_X, BIG_X}

PartRadix(q) == IF HasPrefix(q) THEN 16 ELSE IF s[q] = ZERO THEN 8 ELSE 10

NumDots == Cardinality({p \in 1..Len(s) : s[p] = DOT})

EmptyPart ==
    \/ s = <<>>
    \/ s[1] = DOT
    \/ s[Len(s)] = DOT
    \/ \E p \in 1..(Len(s) - 1) : s[p] = DOT /\ s[p + 1] = DOT

(* A byte that is no dot, not the x of a prefix and no digit of its part's radix. *)
BadByte ==
    \E p \in 1..Len(s) :
        /\ s[p] # DOT
        /\ LET q == PartStartOf(p)
           IN  /\ ~(HasPrefix(q) /\ p = q + 1)
               /\ ~IsDigitIn(s[p], PartRadix(q))

(* A part that is 0x or 0X with no hexadecimal digit after it. *)
BarePrefix ==
    \E q \in 1..Len(s) :
        /\ IsPartStart(q)
        /\ HasPrefix(q)
        /\ (q + 2 > Len(s) \/ ~IsDigitIn(s[q + 2], 16))

----------------------------------------------------------------------------
(* C1: a decimal dotted quad a.b.c.d with a, b, c, d in 0..255 parses, and  *)
(* the result is (a << 24) | (b << 16) | (c << 8) | d: its bytes, least     *)
(* significant first, are d, c, b, a.                                       *)
C1_DottedQuad ==
    (/\ Done
     /\ Len(parts) = 4
     /\ AllDecimal(parts)
     /\ \A k \in 1..4 : Len(parts[k].val) <= 1)
    => /\ pc = "ok"
       /\ res = <<Pad4(parts[4].val)[1], Pad4(parts[3].val)[1],
                  Pad4(parts[2].val)[1], Pad4(parts[1].val)[1]>>

C1_Witness ==
    /\ pc = "ok"
    /\ phase = 1
    /\ AllDecimal(parts)
    /\ Len(parts) = 4
    /\ res = <<1, 10, 100, 255>>

(* C2: with k parts, the first k - 1 at most 255 and the last one v below   *)
(* 2^32, the parse succeeds exactly when v < 2^(32 - 8(k-1)), that is when  *)
(* v has at most 5 - k bytes; the result then has part j in byte 4 - j      *)
(* (counted from the least significant, part 0 first) and v in the rest.    *)
C2_LastPartBudget ==
    LET k == Len(parts)
    IN  (/\ Done
         /\ k \in 1..4
         /\ \A j \in 1..(k - 1) : Len(parts[j].val) <= 1
         /\ Len(parts[k].val) <= 4)
        => /\ (pc = "ok") <=> (Len(parts[k].val) <= 5 - k)
           /\ pc = "ok" =>
                res = [m \in 1..4 |-> IF m > 5 - k
                                      THEN Pad4(parts[5 - m].val)[1]
                                      ELSE Pad4(parts[k].val)[m]]

C2_Witness ==
    /\ pc = "ok"
    /\ phase = 1
    /\ Len(parts) = 3
    /\ parts[1].val = <<255>>
    /\ parts[3].val = <<255, 255>>
    /\ res = <<255, 255, 0, 255>>

(* C3: an input and the same input with every part respelled in decimal     *)
(* have the same outcome: both fail, or both succeed with the same value.   *)
C3_RadixEquivalence ==
    (phase = 2 /\ Done)
    => /\ (pc = "ok") <=> first.ok
       /\ pc = "ok" => res = first.val

C3_Witness ==
    /\ phase = 2
    /\ pc = "ok"
    /\ res = <<255, 255, 0, 255>>
    /\ \E k \in 1..Len(first.parts) :
          /\ first.parts[k].rdx = 16
          /\ first.parts[k].bigx
          /\ first.parts[k].upper
          /\ first.parts[k].zeros > 0
          /\ first.parts[k].val = <<255, 255>>

C5_StructuralRejection ==
    (Done /\ (s = <<>> \/ NumDots > 3 \/ EmptyPart \/ BadByte)) => pc = "err"

C5_Witness ==
    /\ pc = "err"
    /\ NumDots > 3
    /\ ~EmptyPart
    /\ ~BadByte
    /\ ~BarePrefix

(* C6: a part that spells a number of 2^32 or more is rejected, however     *)
(* many digits it has; the accumulator of value() never exceeds             *)
(* 16 * 0xffff_ffff + 15 = 2^36 - 1; and value() returns to parse() exactly *)
(* the number the part spells, whatever the number of its leading zeros.    *)
C6_Overflow ==
    /\ (Done /\ \E k \in 1..Len(parts) : Len(parts[k].val) > 4) => pc = "err"
    /\ acc[5] <= 15 /\ acc[6] = 0 /\ acc[7] = 0 /\ acc[8] = 0
    /\ pc = "part" =>
          /\ Len(parts[part + 1].val) <= 4
          /\ x = Pad4(parts[part + 1].val)

C6_Witness ==
    /\ pc = "err"
    /\ Over32(acc)
    /\ parts[part + 1].zeros = LongZeros
    /\ Len(parts[part + 1].val) = 10

(* C7: the canonical dotted quad of a parsed address parses to the same     *)
(* address.                                                                 *)
C7_RoundTrip ==
    (phase = 3 /\ Done) => (pc = "ok" /\ res = first.val)

C7_Witness ==
    /\ phase = 3
    /\ pc = "ok"
    /\ Len(first.parts) = 1
    /\ res = <<1, 0, 0, 127>>

(* C8: the cursor stays within 0..len(s); where the code reads c() or calls *)
(* next() the cursor is before the end (the index and the debug_assert of   *)
(* next() do not panic); and where parse() asserts a dot, there is one.     *)
C8_CursorSafety ==
    /\ i \in 0..Len(s)
    /\ pc # "panic"
    /\ pc = "digit" => i < Len(s)
    /\ (pc = "part" /\ part < 3 /\ IsOctet(x) /\ ~end(s, i)) => c(s, i) = DOT

C8_Witness ==
    /\ pc = "part"
    /\ part = 2
    /\ IsOctet(x)
    /\ ~end(s, i)
    /\ c(s, i) = DOT

(* C9: a step moves the cursor forward by one byte, with a call of next(),  *)
(* or leaves it; the calls of next() are at most len(s); Ok is returned     *)
(* only with the cursor at the end; and every parse returns.                *)
C9_SinglePass ==
    /\ [][/\ i' \in {i, i + 1}
          /\ nexts' - nexts = i' - i]_vars
    /\ [](nexts = i /\ nexts <= Len(s))
    /\ [](pc = "ok" => i = Len(s))
    /\ <>Done

C9_Witness ==
    /\ pc = "ok"
    /\ NumDots = 3
    /\ nexts = Len(s)

(* C10: a part of 256 or more ends the parse, with an error if a byte       *)
(* follows it; so in a successful parse every part before the last is at    *)
(* most 255 and is byte 4 - j of the result (part 0 first), and the last    *)
(* part fills the bytes below without reaching the others.                  *)
C10_EarlyTerminal ==
    /\ \A j \in 1..Len(xs) :
          ~IsOctet(xs[j]) => (j = Len(xs) /\ Done /\ (~end(s, i) => pc = "err"))
    /\ pc = "ok" =>
          LET k == Len(xs)
          IN  /\ \A j \in 1..(k - 1) : IsOctet(xs[j]) /\ res[5 - j] = xs[j][1]
              /\ \A m \in 1..(5 - k) : res[m] = xs[k][m]
              /\ \A m \in (6 - k)..4 : xs[k][m] = 0

C10_Witness ==
    /\ pc = "err"
    /\ Len(xs) = 2
    /\ IsOctet(xs[1])
    /\ ~IsOctet(xs[2])
    /\ ~end(s, i)

====
